---- MODULE Spec2Model ----
(***************************************************************************)
(* A model of src/convert_ast/converter.ts: the decoder that turns a flat  *)
(* buffer of 32-bit words into an ESTree-shaped tree.  The recursion of    *)
(* convertNode / convertNodeList is modelled by an explicit call stack, one *)
(* step per field read, call, or return.                                   *)
(***************************************************************************)
EXTENDS Integers, Sequences, FiniteSets, TLC

VARIABLES memory, call

vars == <<memory, call>>

(***************************************************************************)
(* Bounds of the model.                                                    *)
(***************************************************************************)
\* The engine's call-stack limit, in frames of convertNode/convertNodeList.
MaxStack == 6

(***************************************************************************)
(* JavaScript values.  Every value is a record [t, v, oid]: t is the kind, *)
(* v the payload, oid the identity of a node object (<<>> for the rest).   *)
(***************************************************************************)
NoOid == <<>>

Val(t, v) == [t |-> t, v |-> v, oid |-> NoOid]

JsUndefined == Val("undefined", 0)

JsNull == Val("null", 0)

JsBool(b) == Val("boolean", b)

JsStr(s) == Val("string", s)

JsArray(s) == Val("array", s)

\* buffer[i] for an index outside the typed array, and an absent argument.
Undefined == -1

\* undefined++ and NaN + 1.
NaN == -2

\* A word read from the buffer as a JavaScript value.
JsWord(w) == IF w = Undefined THEN JsUndefined ELSE Val("number", w)

\* Variant: a test for undefined only, which takes the word 0 for a position.
TruthyDefined(w) == w # Undefined /\ w # NaN

\* !!w for a word w: undefined and 0 are falsy.
Truthy(w) == w # Undefined /\ w # NaN /\ w # 0

\* Variant: a read outside the array yields 0, as from zero-filled memory.
BufAtZeroFilled(buffer, position) ==
  IF position \in 0..(Len(buffer) - 1) THEN buffer[position + 1] ELSE 0

\* buffer[position]: undefined when position is no index of the array.
BufAt(buffer, position) ==
  IF position \in 0..(Len(buffer) - 1) THEN buffer[position + 1] ELSE Undefined

\* position++ / position + 1.
Inc(position) == IF position \in Nat THEN position + 1 ELSE NaN

\* position << 2: ToInt32(position) shifted left by two, as a signed 32-bit value.
\* The two bits shifted out are dropped (position mod 2^30) and bit 29 becomes the
\* sign; NaN converts to 0.
Shl2(position) ==
  IF position \in Nat
    THEN LET q == position % 1073741824
         IN  IF q >= 536870912 THEN (q - 1073741824) * 4 ELSE q * 4
    ELSE 0

(***************************************************************************)
(* The enumerated-kind lookup tables.                                      *)
(***************************************************************************)
DECLARATION_KINDS == <<"var", "let", "const">>

PROPERTY_KINDS == <<"init", "get", "set">>

METHOD_DEFINITION_KINDS == <<"constructor", "method", "get", "set">>

KindTable(name) ==
  CASE name = "DECLARATION_KINDS" -> DECLARATION_KINDS
    [] name = "PROPERTY_KINDS" -> PROPERTY_KINDS
    [] OTHER -> METHOD_DEFINITION_KINDS

\* Variant: an index outside the table falls back to the first entry.
LookupDefault(table, w) ==
  IF w \in 0..(Len(table) - 1) THEN JsStr(table[w + 1]) ELSE JsStr(table[1])

\* TABLE[w]: undefined when w is no index of the table.
Lookup(table, w) ==
  IF w \in 0..(Len(table) - 1) THEN JsStr(table[w + 1]) ELSE JsUndefined

(***************************************************************************)
(* The steps of a converter, in the order the code evaluates them.         *)
(*   f: the field (or local value) the step defines                        *)
(*   a: the local position it reads or writes, or the lookup table         *)
(*   b: the sibling field a defaulted reference falls back to              *)
(*   k: the value of a constant field                                      *)
(***************************************************************************)
Op(op, f, a, b, k) == [op |-> op, f |-> f, a |-> a, b |-> b, k |-> k]

\* const f = buffer[position++]
Word(f) == Op("word", f, "", "", JsUndefined)

\* const f = !!buffer[position++]
Flag(f) == Op("flag", f, "", "", JsUndefined)

\* const f = TABLE[buffer[position++]]
Enum(f, table) == Op("enum", f, table, "", JsUndefined)

\* const a = buffer[position++]
Local(a) == Op("local", "", a, "", JsUndefined)

\* const a = buffer[position]
LocalHere(a) == Op("localHere", "", a, "", JsUndefined)

\* f: !a
NotLocal(f, a) == Op("notLocal", f, a, "", JsUndefined)

\* const f = convertNode(buffer[position++], buffer, readString)
NodeRef(f) == Op("nodeRef", f, "", "", JsUndefined)

\* const f = convertNode(buffer[position], buffer, readString)
NodeRefHere(f) == Op("nodeRefHere", f, "", "", JsUndefined)

\* const f = convertNode(position, buffer, readString)
NodeHere(f) == Op("nodeHere", f, "", "", JsUndefined)

\* f: a ? convertNode(a, buffer, readString) : null
NodeOpt(f, a) == Op("nodeOpt", f, a, "", JsUndefined)

\* f: a ? convertNode(a, buffer, readString) : b
NodeOr(f, a, b) == Op("nodeOr", f, a, b, JsUndefined)

\* const f = convertNodeList(buffer[position++], buffer, readString)
ListRef(f) == Op("listRef", f, "", "", JsUndefined)

\* const f = convertNodeList(position, buffer, readString)
ListHere(f) == Op("listHere", f, "", "", JsUndefined)

\* f: a ? convertNodeList(a, buffer, readString) : []
ListOpt(f, a) == Op("listOpt", f, a, "", JsUndefined)

\* const f = convertString(position, buffer, readString)
StrHere(f) == Op("strHere", f, "", "", JsUndefined)

\* const f = convertString(buffer[position++], buffer, readString)
StrRef(f) == Op("strRef", f, "", "", JsUndefined)

\* const f = a ? convertString(a, buffer, readString) : undefined
StrOpt(f, a) == Op("strOpt", f, a, "", JsUndefined)

\* const f = new DataView(buffer.buffer).getFloat64(position << 2, true)
Double(f) == Op("double", f, "", "", JsUndefined)

\* f: a literal of the source
Const(f, k) == Op("const", f, "", "", k)

\* raw: value ? 'true' : 'false'
BoolRaw(f, b) == Op("boolRaw", f, "", b, JsUndefined)

\* raw: `/${pattern}/${flags}`
RegExpRaw(f) == Op("regexpRaw", f, "", "", JsUndefined)

\* regex: { flags, pattern }
RegExpParts(f) == Op("regexpParts", f, "", "", JsUndefined)

\* value: new RegExp(pattern, flags)
RegExpValue(f) == Op("regexpValue", f, "", "", JsUndefined)

\* value: BigInt(bigint)
BigIntValue(f, b) == Op("bigintValue", f, "", b, JsUndefined)

\* The first two fields of every converter.
StartEnd == <<Word("start"), Word("end")>>

\* Variant: a converter that reads end before start.
ConverterEndFirst(type, ops, temps) ==
  [type |-> type, ops |-> <<Word("end"), Word("start")>> \o ops, temps |-> temps]

\* A converter: the type it labels its node with, the steps it takes, and the
\* locals that are not fields of the node it returns.
Converter(type, ops, temps) ==
  [type |-> type, ops |-> StartEnd \o ops, temps |-> temps]

\* A reserved slot of the table: null as any.
NoConverter == [type |-> "", ops |-> <<>>, temps |-> {}]

(***************************************************************************)
(* The converters, one per slot of nodeConverters.                         *)
(***************************************************************************)
ArrayExpression == Converter("ArrayExpression", <<ListHere("elements")>>, {})

ArrayPattern == Converter("ArrayPattern", <<ListHere("elements")>>, {})

ArrowFunctionExpression ==
  Converter("ArrowFunctionExpression",
    <<Flag("async"), Flag("generator"), ListRef("params"), Flag("expression"),
      NodeHere("body"), Const("id", JsNull)>>, {})

AssignmentExpression ==
  Converter("AssignmentExpression",
    <<NodeRef("left"), NodeRef("right"), StrHere("operator")>>, {})

AssignmentPattern ==
  Converter("AssignmentPattern", <<NodeRef("left"), NodeHere("right")>>, {})

AwaitExpression == Converter("AwaitExpression", <<NodeHere("argument")>>, {})

\* Variant: the two reference words taken in the other order.
BinaryExpressionRightFirst ==
  Converter("BinaryExpression",
    <<NodeRef("right"), NodeRef("left"), StrHere("operator")>>, {})

BinaryExpression ==
  Converter("BinaryExpression",
    <<NodeRef("left"), NodeRef("right"), StrHere("operator")>>, {})

BlockStatement == Converter("BlockStatement", <<ListHere("body")>>, {})

BreakStatement ==
  Converter("BreakStatement",
    <<Local("labelPosition"), NodeOpt("label", "labelPosition")>>, {})

CallExpression ==
  Converter("CallExpression",
    <<Flag("optional"), NodeRef("callee"), ListHere("arguments")>>, {})

CatchClause ==
  Converter("CatchClause",
    <<Local("parameterPosition"), NodeHere("body"),
      NodeOpt("param", "parameterPosition")>>, {})

ChainExpression == Converter("ChainExpression", <<NodeHere("expression")>>, {})

ClassBody == Converter("ClassBody", <<ListHere("body")>>, {})

ClassDeclaration ==
  Converter("ClassDeclaration",
    <<Local("idPosition"), Local("superClassPosition"), NodeRefHere("body"),
      NodeOpt("id", "idPosition"), NodeOpt("superClass", "superClassPosition")>>, {})

ClassExpression ==
  Converter("ClassExpression",
    <<Local("idPosition"), Local("superClassPosition"), NodeRefHere("body"),
      NodeOpt("id", "idPosition"), NodeOpt("superClass", "superClassPosition")>>, {})

ConditionalExpression ==
  Converter("ConditionalExpression",
    <<NodeRef("test"), NodeRef("consequent"), NodeHere("alternate")>>, {})

ContinueStatement ==
  Converter("ContinueStatement",
    <<LocalHere("labelPosition"), NodeOpt("label", "labelPosition")>>, {})

DebuggerStatement == Converter("DebuggerStatement", <<>>, {})

DoWhileStatement ==
  Converter("DoWhileStatement", <<NodeRef("test"), NodeHere("body")>>, {})

EmptyStatement == Converter("EmptyStatement", <<>>, {})

ExportAllDeclaration ==
  Converter("ExportAllDeclaration",
    <<ListRef("assertions"), Local("exportedPosition"), NodeHere("source"),
      NodeOpt("exported", "exportedPosition")>>, {})

ExportDefaultDeclaration ==
  Converter("ExportDefaultDeclaration", <<NodeHere("declaration")>>, {})

ExportNamedDeclaration ==
  Converter("ExportNamedDeclaration",
    <<Local("declarationPosition"), Local("sourcePosition"), ListRef("assertions"),
      ListHere("specifiers"), NodeOpt("declaration", "declarationPosition"),
      NodeOpt("source", "sourcePosition")>>, {})

ExportSpecifier ==
  Converter("ExportSpecifier",
    <<Local("exportedPosition"), NodeHere("local"),
      NodeOr("exported", "exportedPosition", "local")>>, {})

ExpressionStatement ==
  Converter("ExpressionStatement", <<NodeHere("expression")>>, {})

ForInStatement ==
  Converter("ForInStatement",
    <<NodeRef("left"), NodeRef("right"), NodeHere("body")>>, {})

ForOfStatement ==
  Converter("ForOfStatement",
    <<Flag("await"), NodeRef("left"), NodeRef("right"), NodeHere("body")>>, {})

ForStatement ==
  Converter("ForStatement",
    <<Local("initPosition"), Local("testPosition"), Local("updatePosition"),
      NodeHere("body"), NodeOpt("init", "initPosition"),
      NodeOpt("test", "testPosition"), NodeOpt("update", "updatePosition")>>, {})

FunctionDeclaration ==
  Converter("FunctionDeclaration",
    <<Flag("async"), Flag("generator"), Local("idPosition"), ListRef("params"),
      NodeHere("body"), Const("expression", JsBool(FALSE)),
      NodeOpt("id", "idPosition")>>, {})

FunctionExpression ==
  Converter("FunctionExpression",
    <<Flag("async"), Flag("generator"), Local("idPosition"), ListRef("params"),
      NodeHere("body"), Const("expression", JsBool(FALSE)),
      NodeOpt("id", "idPosition")>>, {})

Identifier == Converter("Identifier", <<StrHere("name")>>, {})

IfStatement ==
  Converter("IfStatement",
    <<NodeRef("consequent"), Local("alternatePosition"), NodeHere("test"),
      NodeOpt("alternate", "alternatePosition")>>, {})

ImportAttribute ==
  Converter("ImportAttribute", <<NodeRef("key"), NodeHere("value")>>, {})

ImportDeclaration ==
  Converter("ImportDeclaration",
    <<NodeRef("source"), ListRef("assertions"), ListHere("specifiers")>>, {})

ImportDefaultSpecifier ==
  Converter("ImportDefaultSpecifier", <<NodeHere("local")>>, {})

ImportExpression ==
  Converter("ImportExpression", <<ListRef("arguments"), NodeHere("source")>>, {})

ImportNamespaceSpecifier ==
  Converter("ImportNamespaceSpecifier", <<NodeHere("local")>>, {})

ImportSpecifier ==
  Converter("ImportSpecifier",
    <<Local("importedPosition"), NodeHere("local"),
      NodeOr("imported", "importedPosition", "local")>>, {})

LabeledStatement ==
  Converter("LabeledStatement", <<NodeRef("body"), NodeHere("label")>>, {})

LiteralString ==
  Converter("Literal",
    <<Local("rawPosition"), StrOpt("raw", "rawPosition"), StrHere("value")>>, {})

LiteralBoolean ==
  Converter("Literal", <<Flag("value"), BoolRaw("raw", "value")>>, {})

LiteralNumber ==
  Converter("Literal",
    <<Local("rawPosition"), StrOpt("raw", "rawPosition"), Double("value")>>, {})

LiteralNull ==
  Converter("Literal", <<Const("raw", JsStr("null")), Const("value", JsNull)>>, {})

LiteralRegExp ==
  Converter("Literal",
    <<StrRef("pattern"), StrHere("flags"), RegExpRaw("raw"), RegExpParts("regex"),
      RegExpValue("value")>>, {"pattern", "flags"})

LiteralBigInt ==
  Converter("Literal",
    <<StrRef("bigint"), StrHere("raw"), BigIntValue("value", "bigint")>>, {})

LogicalExpression ==
  Converter("LogicalExpression",
    <<NodeRef("left"), NodeRef("right"), StrHere("operator")>>, {})

MemberExpression ==
  Converter("MemberExpression",
    <<Flag("optional"), NodeRef("object"), Flag("computed"), NodeHere("property")>>, {})

MetaProperty ==
  Converter("MetaProperty", <<NodeRef("meta"), NodeHere("property")>>, {})

MethodDefinition ==
  Converter("MethodDefinition",
    <<Enum("kind", "METHOD_DEFINITION_KINDS"), Flag("computed"), Flag("static"),
      NodeRef("value"), NodeHere("key")>>, {})

NewExpression ==
  Converter("NewExpression",
    <<Local("argumentsPosition"), NodeHere("callee"),
      ListOpt("arguments", "argumentsPosition")>>, {})

ObjectExpression == Converter("ObjectExpression", <<ListHere("properties")>>, {})

ObjectPattern == Converter("ObjectPattern", <<ListHere("properties")>>, {})

PrivateIdentifier == Converter("PrivateIdentifier", <<StrHere("name")>>, {})

Program ==
  Converter("Program",
    <<ListHere("body"), Const("sourceType", JsStr("module"))>>, {})

Property ==
  Converter("Property",
    <<Enum("kind", "PROPERTY_KINDS"), Flag("method"), Flag("computed"),
      Local("valuePosition"), NotLocal("shorthand", "valuePosition"),
      NodeHere("key"), NodeOr("value", "valuePosition", "key")>>, {})

PropertyDefinition ==
  Converter("PropertyDefinition",
    <<Flag("computed"), Flag("static"), Local("valuePosition"), NodeHere("key"),
      NodeOpt("value", "valuePosition")>>, {})

RestElement == Converter("RestElement", <<NodeHere("argument")>>, {})

ReturnStatement ==
  Converter("ReturnStatement",
    <<LocalHere("argumentPosition"), NodeOpt("argument", "argumentPosition")>>, {})

SequenceExpression ==
  Converter("SequenceExpression", <<ListHere("expressions")>>, {})

SpreadElement == Converter("SpreadElement", <<NodeRef("argument")>>, {})

StaticBlock == Converter("StaticBlock", <<ListHere("body")>>, {})

Super == Converter("Super", <<>>, {})

SwitchCase ==
  Converter("SwitchCase",
    <<Local("testPosition"), ListHere("consequent"),
      NodeOpt("test", "testPosition")>>, {})

SwitchStatement ==
  Converter("SwitchStatement", <<NodeRef("discriminant"), ListHere("cases")>>, {})

ThisExpression == Converter("ThisExpression", <<>>, {})

ThrowStatement == Converter("ThrowStatement", <<NodeHere("argument")>>, {})

TryStatement ==
  Converter("TryStatement",
    <<Local("handlerPosition"), Local("finalizerPosition"), NodeHere("block"),
      NodeOpt("finalizer", "finalizerPosition"),
      NodeOpt("handler", "handlerPosition")>>, {})

VariableDeclaration ==
  Converter("VariableDeclaration",
    <<Enum("kind", "DECLARATION_KINDS"), ListHere("declarations")>>, {})

VariableDeclarator ==
  Converter("VariableDeclarator",
    <<Local("init_position"), NodeHere("id"), NodeOpt("init", "init_position")>>, {})

WhileStatement ==
  Converter("WhileStatement", <<NodeRef("test"), NodeHere("body")>>, {})

AssignmentPatternProperty ==
  Converter("Property",
    <<Local("valuePosition"), NodeHere("key"),
      NodeOr("value", "valuePosition", "key"), Const("computed", JsBool(FALSE)),
      Const("kind", JsStr("init")), Const("method", JsBool(FALSE)),
      NotLocal("shorthand", "valuePosition")>>, {})

\* The decoder table; slot i of the array is element i + 1 of the sequence.
nodeConverters ==
  << ArrayExpression, ArrayPattern, ArrowFunctionExpression, AssignmentExpression,
     AssignmentPattern, AwaitExpression, BinaryExpression, BlockStatement,
     BreakStatement, CallExpression, CatchClause, ChainExpression, ClassBody,
     ClassDeclaration, ClassExpression, ConditionalExpression, ContinueStatement,
     DebuggerStatement, DoWhileStatement, EmptyStatement, ExportAllDeclaration,
     ExportDefaultDeclaration, ExportNamedDeclaration, ExportSpecifier,
     ExpressionStatement, ForInStatement, ForOfStatement, ForStatement,
     FunctionDeclaration, FunctionExpression, Identifier, IfStatement,
     ImportAttribute, ImportDeclaration, ImportDefaultSpecifier, ImportExpression,
     ImportNamespaceSpecifier, ImportSpecifier, LabeledStatement, LiteralString,
     LiteralBoolean, LiteralNumber, LiteralNull, LiteralRegExp, LiteralBigInt,
     LogicalExpression, MemberExpression, MetaProperty, MethodDefinition,
     NewExpression, ObjectExpression, ObjectPattern, PrivateIdentifier, Program,
     Property, PropertyDefinition, RestElement, ReturnStatement,
     SequenceExpression, SpreadElement, StaticBlock, Super, SwitchCase,
     SwitchStatement, NoConverter, NoConverter, NoConverter, ThisExpression,
     ThrowStatement, TryStatement, NoConverter, NoConverter, VariableDeclaration,
     VariableDeclarator, WhileStatement, NoConverter, AssignmentPatternProperty >>

\* nodeConverters[nodeType]: a reserved slot, and an index outside the array, hold
\* no converter.
ConverterAt(nodeType) ==
  IF nodeType \in 0..(Len(nodeConverters) - 1)
    THEN nodeConverters[nodeType + 1]
    ELSE NoConverter

\* Variant: a test of the index against the length of the table, which takes a
\* reserved slot for a converter.
HasConverterInTable(nodeType) == nodeType \in 0..(Len(nodeConverters) - 1)

\* !converter
HasConverter(nodeType) == ConverterAt(nodeType) # NoConverter

(***************************************************************************)
(* The text resolver.  readString is supplied by the caller; the model     *)
(* knows a resolver by name and a text by the request that produced it.    *)
(***************************************************************************)
\* The resolvers of the model: one whose texts the host's RegExp and BigInt
\* accept, one whose texts they reject.
Resolvers == {"wellFormed", "malformed"}

\* readString(start, length)
ReadString(readString, start, length) == Val("text", <<readString, start, length>>)

\* Whether new RegExp(pattern, flags) and BigInt(bigint) accept the resolver's text.
HostAccepts(readString) == readString = "wellFormed"

\* The statements of convertString once the length word is read:
\* position++; const bytePosition = position << 2; readString(bytePosition, length)
StringAt(position, length, readString) ==
  LET bytePosition == Shl2(Inc(position))
  IN  ReadString(readString, bytePosition, length)

\* convertString(position, buffer, readString)
convertString(position, buffer, readString) ==
  StringAt(position, BufAt(buffer, position), readString)

\* new DataView(buffer.buffer).getFloat64(byteOffset, true) is in bounds.
Float64InBounds(buffer, byteOffset) ==
  byteOffset >= 0 /\ byteOffset + 8 <= 4 * Len(buffer)

\* Variant: the two words read in big-endian order, the first word as the high half.
GetFloat64HighFirst(buffer, position) ==
  Val("float64", <<BufAt(buffer, Inc(position)), BufAt(buffer, position)>>)

\* The double whose low word is at position and whose high word follows it.
GetFloat64(buffer, position) ==
  Val("float64", <<BufAt(buffer, position), BufAt(buffer, Inc(position))>>)

(***************************************************************************)
(* Errors.                                                                 *)
(***************************************************************************)
NoError == [name |-> "", message |-> "", arg |-> JsUndefined]

\* Variant: an error whose text leaves the tag out.
UnknownNodeTypeUnnamed(nodeType) ==
  [name |-> "Error", message |-> "Unknown node type: ", arg |-> JsUndefined]

\* new Error(`Unknown node type: ${nodeType}`)
UnknownNodeType(nodeType) ==
  [name |-> "Error", message |-> "Unknown node type: ", arg |-> JsWord(nodeType)]

\* The engine's error when the recursion exhausts the call stack.
StackExhausted ==
  [name |-> "RangeError", message |-> "Maximum call stack size exceeded",
   arg |-> JsUndefined]

\* getFloat64 outside the bounds of the DataView.
OffsetOutOfBounds ==
  [name |-> "RangeError", message |-> "Offset is outside the bounds of the DataView",
   arg |-> JsUndefined]

\* new RegExp / BigInt on text the host does not accept.
HostSyntaxError ==
  [name |-> "SyntaxError", message |-> "Invalid text", arg |-> JsUndefined]

(***************************************************************************)
(* Stack frames.                                                           *)
(***************************************************************************)
EmptyMap == <<>>

\* A call of convertNode(position, ...) or convertNodeList(position, ...) that has
\* not yet executed its first statement.
\* at keeps the position the function was called with; position is the cursor.
Frame(fn, position) ==
  [fn |-> fn, at |-> position, position |-> position, pc |-> 0, nodeType |-> Undefined,
   fields |-> EmptyMap, locals |-> EmptyMap, length |-> Undefined, index |-> 0,
   list |-> <<>>]

Put(map, key, value) == (key :> value) @@ map

\* The step a converter frame is about to take.
CurrentOp(frame) == ConverterAt(frame.nodeType).ops[frame.pc]

InConverter(frame) ==
  /\ frame.fn = "convertNode"
  /\ frame.pc >= 1
  /\ frame.pc <= Len(ConverterAt(frame.nodeType).ops)

SimpleOps ==
  {"word", "flag", "enum", "local", "localHere", "notLocal", "strHere", "strRef",
   "strOpt", "double", "const", "boolRaw", "regexpRaw", "regexpParts",
   "regexpValue", "bigintValue"}

ReferenceOps == {"nodeOpt", "nodeOr", "listOpt"}

CallOps == {"nodeRef", "nodeRefHere", "nodeHere", "listRef", "listHere"}

\* The local position an optional reference tests.
LocalOf(frame, op) == frame.locals[op.a]

\* The error a step without a call raises, NoError when it completes.
FieldError(frame, op, buffer, readString) ==
  CASE op.op = "double" /\ ~Float64InBounds(buffer, Shl2(frame.position)) ->
         OffsetOutOfBounds
    [] op.op \in {"regexpValue", "bigintValue"} /\ ~HostAccepts(readString) ->
         HostSyntaxError
    [] OTHER -> NoError

\* The value a step without a call computes.
FieldValue(frame, op, buffer, readString) ==
  LET w == BufAt(buffer, frame.position)
  IN  CASE op.op = "word" -> JsWord(w)
        [] op.op = "flag" -> JsBool(Truthy(w))
        [] op.op = "enum" -> Lookup(KindTable(op.a), w)
        [] op.op = "notLocal" -> JsBool(~Truthy(LocalOf(frame, op)))
        [] op.op = "strHere" -> convertString(frame.position, buffer, readString)
        [] op.op = "strRef" -> convertString(w, buffer, readString)
        [] op.op = "strOpt" ->
             IF Truthy(LocalOf(frame, op))
               THEN convertString(LocalOf(frame, op), buffer, readString)
               ELSE JsUndefined
        [] op.op = "double" -> GetFloat64(buffer, frame.position)
        [] op.op = "const" -> op.k
        [] op.op = "boolRaw" ->
             JsStr(IF frame.fields[op.b].v THEN "true" ELSE "false")
        [] op.op = "regexpRaw" ->
             Val("template", <<frame.fields["pattern"], frame.fields["flags"]>>)
        [] op.op = "regexpParts" ->
             Val("object", [flags |-> frame.fields["flags"],
                            pattern |-> frame.fields["pattern"]])
        [] op.op = "regexpValue" ->
             Val("RegExp", <<frame.fields["pattern"], frame.fields["flags"]>>)
        [] op.op = "bigintValue" -> Val("bigint", frame.fields[op.b])
        [] OTHER -> JsUndefined

\* Whether a step consumes the word at the cursor (position++).
Advances(op) == op.op \in {"word", "flag", "enum", "local", "strRef", "nodeRef", "listRef"}

\* The frame after a step without a call.
FieldStep(frame, op, buffer, readString) ==
  LET w == BufAt(buffer, frame.position)
      moved == [frame EXCEPT !.pc = @ + 1,
                             !.position = IF Advances(op) THEN Inc(@) ELSE @]
  IN  IF op.op \in {"local", "localHere"}
        THEN [moved EXCEPT !.locals = Put(@, op.a, w)]
        ELSE [moved EXCEPT !.fields = Put(@, op.f, FieldValue(frame, op, buffer, readString))]

\* Variant: an absent node is left undefined instead of null.
AbsentValueUndefined(frame, op) ==
  CASE op.op = "nodeOpt" -> JsUndefined
    [] op.op = "nodeOr" -> frame.fields[op.b]
    [] OTHER -> JsArray(<<>>)

\* Variant: an absent exported/imported name is a copy of local, not local itself.
AbsentValueCopy(frame, op) ==
  CASE op.op = "nodeOpt" -> JsNull
    [] op.op = "nodeOr" -> [frame.fields[op.b] EXCEPT !.oid = NoOid]
    [] OTHER -> JsArray(<<>>)

\* Variant: an absent value of a property is null, not the key.
AbsentValueNoDefault(frame, op) ==
  CASE op.op = "nodeOpt" -> JsNull
    [] op.op = "nodeOr" -> JsNull
    [] OTHER -> JsArray(<<>>)

\* What an optional reference yields when its position is 0: null, the sibling
\* already decoded, or an empty list.
AbsentValue(frame, op) ==
  CASE op.op = "nodeOpt" -> JsNull
    [] op.op = "nodeOr" -> frame.fields[op.b]
    [] OTHER -> JsArray(<<>>)

\* The function a step calls, and the position it passes.
Callee(op) == IF op.op \in {"listRef", "listHere", "listOpt"} THEN "convertNodeList" ELSE "convertNode"

CalleePosition(frame, op, buffer) ==
  CASE op.op \in {"nodeRef", "nodeRefHere", "listRef"} -> BufAt(buffer, frame.position)
    [] op.op \in {"nodeHere", "listHere"} -> frame.position
    [] OTHER -> LocalOf(frame, op)

\* The object a converter returns: its fields, and the type it is labelled with.
NodeObject(frame, oid) ==
  LET converter == ConverterAt(frame.nodeType)
      names == (DOMAIN frame.fields \ converter.temps) \cup {"type"}
  IN  [t |-> "object",
       v |-> [f \in names |-> IF f = "type" THEN JsStr(converter.type) ELSE frame.fields[f]],
       oid |-> oid]

\* Variant: node objects are kept in a module-level pool that every call draws from.
NewOidPooled(c, k) == <<0, k>>

\* The identity of the k-th object a call creates.
NewOid(c, k) == <<c, k>>

\* The caller's frame once the callee has returned value.
Resume(frame, value) ==
  IF frame.fn = "convertNode"
    THEN [frame EXCEPT !.fields = Put(@, CurrentOp(frame).f, value), !.pc = @ + 1]
    ELSE [frame EXCEPT !.list = Append(@, value), !.index = @ + 1]

Range(seq) == { seq[i] : i \in DOMAIN seq }

Top(stack) == stack[Len(stack)]

Pop(stack) == SubSeq(stack, 1, Len(stack) - 1)

SetTop(stack, frame) == [stack EXCEPT ![Len(stack)] = frame]

(***************************************************************************)
(* Decode calls.  memory[b] holds the words of ArrayBuffer b.  call[c] is  *)
(* one call of convertProgram: its arguments, its call stack, how it       *)
(* ended, and a record of the calls of convertNode it made (visits) and of *)
(* what convertNode and convertNodeList returned (returns).                *)
(***************************************************************************)
NewCall(buffer, readString, after) ==
  [buffer |-> buffer, readString |-> readString, after |-> after,
   status |-> "idle", stack |-> <<>>, result |-> JsUndefined, error |-> NoError,
   allocated |-> 0, visits |-> <<>>, returns |-> <<>>]

\* new Uint32Array(buffer): the words of the call's buffer.
WordsOf(c) == memory[call[c].buffer]

Done(c) == call[c].status \in {"returned", "threw"}

Running(c) == call[c].status = "running"

\* The call ends by raising error; the stack unwinds, no handler catches it.
Throw(c, error) ==
  /\ call' = [call EXCEPT ![c].status = "threw", ![c].error = error, ![c].stack = <<>>]
  /\ UNCHANGED memory

\* Variant: reading a word clears it (the first word of the buffer is zeroed).
ContinueClearing(c, stack) ==
  /\ call' = [call EXCEPT ![c].stack = stack]
  /\ memory' = [memory EXCEPT ![call[c].buffer][1] = 0]

\* Variant: the cursor is a module-level variable, so a step of one call moves the
\* cursor of every call that is running.
ContinueSharedCursor(c, stack) ==
  /\ call' = [d \in DOMAIN call |->
               IF d = c
                 THEN [call[c] EXCEPT !.stack = stack]
                 ELSE IF call[d].status = "running" /\ stack # <<>>
                        THEN [call[d] EXCEPT !.stack =
                               [@ EXCEPT ![Len(@)].position = stack[Len(stack)].position]]
                        ELSE call[d]]
  /\ UNCHANGED memory

\* The call goes on with the given stack.
Continue(c, stack) ==
  /\ call' = [call EXCEPT ![c].stack = stack]
  /\ UNCHANGED memory

\* Variant: an engine without a call-stack limit, where a recursion that has
\* reached the depth of the model never comes back.
InvokeUnlimited(c, stack, fn, position) ==
  IF Len(stack) >= MaxStack
    THEN UNCHANGED vars
    ELSE /\ call' = [call EXCEPT
                ![c].stack = Append(stack, Frame(fn, position)),
                ![c].visits = IF fn = "convertNode" THEN Append(@, position) ELSE @]
         /\ UNCHANGED memory

\* The top frame calls fn(position, buffer, readString).
Invoke(c, stack, fn, position) ==
  IF Len(stack) >= MaxStack
    THEN Throw(c, StackExhausted)
    ELSE /\ call' = [call EXCEPT
                ![c].stack = Append(stack, Frame(fn, position)),
                ![c].visits = IF fn = "convertNode" THEN Append(@, position) ELSE @]
         /\ UNCHANGED memory

\* The top frame returns value to its caller, or to the caller of convertProgram.
Return(c, value, allocated) ==
  LET frame == Top(call[c].stack)
      rest == Pop(call[c].stack)
      returned == [fn |-> frame.fn,
                   position |-> frame.at,
                   value |-> value]
  IN  /\ call' = [call EXCEPT
             ![c].status = IF rest = <<>> THEN "returned" ELSE @,
             ![c].result = IF rest = <<>> THEN value ELSE @,
             ![c].stack = IF rest = <<>> THEN <<>> ELSE SetTop(rest, Resume(Top(rest), value)),
             ![c].allocated = allocated,
             ![c].returns = Append(@, returned)]
      /\ UNCHANGED memory

\* convertProgram(buffer, readString): convertNode(0, new Uint32Array(buffer), readString)
convertProgram(c) ==
  /\ call[c].status = "idle"
  /\ \A d \in call[c].after : Done(d)
  /\ call' = [call EXCEPT ![c].status = "running",
                          ![c].stack = <<Frame("convertNode", 0)>>,
                          ![c].visits = <<0>>]
  /\ UNCHANGED memory

\* convertNode: read the tag, look the converter up, raise or enter the converter
\* with the cursor after the tag.
convertNode(c) ==
  /\ Running(c)
  /\ LET frame == Top(call[c].stack)
         nodeType == BufAt(WordsOf(c), frame.position)
     IN  /\ frame.fn = "convertNode"
         /\ frame.pc = 0
         /\ IF ~HasConverter(nodeType)
              THEN Throw(c, UnknownNodeType(nodeType))
              ELSE Continue(c, SetTop(call[c].stack,
                     [frame EXCEPT !.nodeType = nodeType, !.position = Inc(@), !.pc = 1]))

\* A converter reads a field that needs no call.
ConverterField(c) ==
  /\ Running(c)
  /\ LET frame == Top(call[c].stack)
     IN  /\ InConverter(frame)
         /\ CurrentOp(frame).op \in SimpleOps
         /\ LET op == CurrentOp(frame)
                error == FieldError(frame, op, WordsOf(c), call[c].readString)
            IN  IF error # NoError
                  THEN Throw(c, error)
                  ELSE Continue(c, SetTop(call[c].stack,
                         FieldStep(frame, op, WordsOf(c), call[c].readString)))

\* A converter finds 0 at an optional reference: no call is made.
ConverterAbsent(c) ==
  /\ Running(c)
  /\ LET frame == Top(call[c].stack)
     IN  /\ InConverter(frame)
         /\ CurrentOp(frame).op \in ReferenceOps
         /\ ~Truthy(LocalOf(frame, CurrentOp(frame)))
         /\ Continue(c, SetTop(call[c].stack, Resume(frame, AbsentValue(frame, CurrentOp(frame)))))

\* A converter calls convertNode or convertNodeList for a child.
ConverterCall(c) ==
  /\ Running(c)
  /\ LET frame == Top(call[c].stack)
     IN  /\ InConverter(frame)
         /\ \/ CurrentOp(frame).op \in CallOps
            \/ /\ CurrentOp(frame).op \in ReferenceOps
               /\ Truthy(LocalOf(frame, CurrentOp(frame)))
         /\ LET op == CurrentOp(frame)
                position == CalleePosition(frame, op, WordsOf(c))
                waiting == [frame EXCEPT !.position = IF Advances(op) THEN Inc(@) ELSE @]
            IN  Invoke(c, SetTop(call[c].stack, waiting), Callee(op), position)

\* A converter returns its node.
ConverterReturn(c) ==
  /\ Running(c)
  /\ LET frame == Top(call[c].stack)
     IN  /\ frame.fn = "convertNode"
         /\ frame.pc > Len(ConverterAt(frame.nodeType).ops)
         /\ Return(c, NodeObject(frame, NewOid(c, call[c].allocated + 1)),
                   call[c].allocated + 1)

\* convertNodeList: read the length word.
convertNodeList(c) ==
  /\ Running(c)
  /\ LET frame == Top(call[c].stack)
     IN  /\ frame.fn = "convertNodeList"
         /\ frame.pc = 0
         /\ Continue(c, SetTop(call[c].stack,
              [frame EXCEPT !.length = BufAt(WordsOf(c), frame.position),
                            !.position = Inc(@), !.pc = 1]))

\* Variant: index < length - 1, a loop that stops one element early.
LoopStopsEarly(frame) == frame.length # Undefined /\ frame.index + 1 < frame.length

\* index < length: false when length is undefined.
LoopGoesOn(frame) == frame.length # Undefined /\ frame.index < frame.length

\* One turn of the loop: null for a 0 entry, a call of convertNode otherwise.
ListElement(c) ==
  /\ Running(c)
  /\ LET frame == Top(call[c].stack)
         nodePosition == BufAt(WordsOf(c), frame.position)
         read == [frame EXCEPT !.position = Inc(@)]
     IN  /\ frame.fn = "convertNodeList"
         /\ frame.pc = 1
         /\ LoopGoesOn(frame)
         /\ IF Truthy(nodePosition)
              THEN Invoke(c, SetTop(call[c].stack, read), "convertNode", nodePosition)
              ELSE Continue(c, SetTop(call[c].stack, Resume(read, JsNull)))

\* The loop is over: return list.
ListReturn(c) ==
  /\ Running(c)
  /\ LET frame == Top(call[c].stack)
     IN  /\ frame.fn = "convertNodeList"
         /\ frame.pc = 1
         /\ ~LoopGoesOn(frame)
         /\ Return(c, JsArray(frame.list), call[c].allocated)

\* A step of some call.
Next ==
  \/ \E c \in DOMAIN call : convertProgram(c)
  \/ \E c \in DOMAIN call : convertNode(c)
  \/ \E c \in DOMAIN call : ConverterField(c)
  \/ \E c \in DOMAIN call : ConverterAbsent(c)
  \/ \E c \in DOMAIN call : ConverterCall(c)
  \/ \E c \in DOMAIN call : ConverterReturn(c)
  \/ \E c \in DOMAIN call : convertNodeList(c)
  \/ \E c \in DOMAIN call : ListElement(c)
  \/ \E c \in DOMAIN call : ListReturn(c)

(***************************************************************************)
(* The inputs.                                                             *)
(***************************************************************************)
\* Words that serve as a null reference (0), a flag, a list length, a table index,
\* the tag of an inline child (17 is a DebuggerStatement) and a reference: to the
\* end word (2), to the DebuggerStatement at word 7, to the empty list at word 10,
\* to the reserved tag at word 17.
Words == {0, 2, 7, 17}

\* The word after the end word may also be a reserved tag.
InlineWords == Words \cup {70}

\* The start and end words of the root; the end word is also the tag of the node a
\* reference of 2 names: a DebuggerStatement or an EmptyStatement.
StartEndWords == {<<1, 17>>, <<5, 19>>}

\* The last two words of the root's record: fewer values, to keep the input set small.
FifthWords == {0, 7, 17}

SixthWords == {0, 7, 10}

\* What every buffer ends with: a DebuggerStatement at word 7, seven words of 0,
\* and the reserved tag of UnaryExpression at word 17.
Suffix == <<17, 3, 4, 0, 0, 0, 0, 0, 0, 0, 70>>

\* Every slot of the table, and one past it.
Tags == 0..77

Buffers ==
  { <<tag, se[1], se[2], a, b, c, d>> \o Suffix :
      tag \in Tags, se \in StartEndWords, a \in InlineWords, b \in Words,
      c \in FifthWords, d \in SixthWords }

\* The resolvers a buffer is decoded with: the malformed text store is tried where
\* the host parses text (the RegExp and BigInt literals).
ResolversFor(buffer) ==
  IF BufAt(buffer, 0) \in {43, 44} THEN Resolvers ELSE {"wellFormed"}

\* `return 1 + 2;`: a Program at word 0 whose body refers to the ReturnStatement
\* at word 5, whose argument is the BinaryExpression at word 9, whose left and
\* right are the number Literals at words 16 and 22 (the doubles 1 and 2) and
\* whose operator is the span of length 1 at word 14 (byte 60 holds "+").
ReturnOnePlusTwo ==
  << 53, 0, 13, 1, 5,
     57, 0, 13, 9,
     6, 7, 12, 16, 22, 1, 43,
     41, 7, 8, 0, 0, 1072693248,
     41, 11, 12, 0, 0, 1073741824 >>

\* Node positions past the last word: the root of an empty buffer, the inline
\* argument of an AwaitExpression that ends the buffer, and a list element of a
\* Program that refers to word 9 of 5.
PastTheEnd == { <<>>, <<5, 1, 2>>, <<53, 0, 9, 1, 9>> }

\* Buffers decoded beside the enumerated ones.
Scenarios == {ReturnOnePlusTwo} \cup PastTheEnd

\* One call of convertProgram.
Init ==
  \E buffer \in Buffers \cup Scenarios :
    \E readString \in ResolversFor(buffer) :
      /\ memory = (1 :> buffer)
      /\ call = (1 :> NewCall(1, readString, {}))

Spec == Init /\ [][Next]_vars

\* The decode is synchronous: once called it runs until it returns or throws.
FairSpec == Spec /\ WF_vars(Next)

(***************************************************************************)
(* Several calls: calls 1 and 2 run alone, one after the other, on buffers *)
(* 1 and 2; then calls 3 (on buffer 1) and 4 (on buffer 2) run with their  *)
(* steps interleaved in any order.                                         *)
(***************************************************************************)
PairHeaders ==
  { <<53, 1, 17, 2, 7, 0, 0>>,    \* Program [ DebuggerStatement, hole ]
    <<5, 1, 17, 70, 0, 0, 0>>,    \* AwaitExpression of a reserved tag
    <<70, 1, 17, 0, 0, 0, 0>>,    \* a reserved tag at the root
    <<59, 1, 17, 0, 0, 0, 0>>,    \* SpreadElement of itself
    <<23, 1, 17, 0, 17, 3, 5>>,   \* ExportSpecifier, exported absent
    <<43, 1, 17, 7, 2, 0, 0>>,    \* Literal<RegExp>
    <<69, 5, 19, 2, 0, 17, 3>>,   \* TryStatement with a handler and no finalizer
    <<77, 1, 17, 0, 0, 0, 0>> }   \* a tag past the end of the table

PairBuffers == { header \o Suffix : header \in PairHeaders }

InitPair ==
  \E first \in PairBuffers, second \in PairBuffers :
    \E readFirst \in ResolversFor(first), readSecond \in ResolversFor(second) :
      /\ memory = (1 :> first) @@ (2 :> second)
      /\ call = (1 :> NewCall(1, readFirst, {}))
              @@ (2 :> NewCall(2, readSecond, {1}))
              @@ (3 :> NewCall(1, readFirst, {1, 2}))
              @@ (4 :> NewCall(2, readSecond, {1, 2}))

SpecPair == InitPair /\ [][Next]_vars

(***************************************************************************)
(* convertString on a typed array too large to enumerate.  The array is    *)
(* known by the one word convertString reads from it, the length word at   *)
(* position; call[c] is one call of convertString and records the requests *)
(* it makes to the resolver.                                               *)
(***************************************************************************)
\* Word positions up to the largest a 32-bit reference word below 2^31 can hold,
\* on both sides of 2^29 and 2^30.
TextPositions ==
  {0, 1, 7, 16, 536870910, 536870911, 536870912, 1073741822, 1073741823,
   1073741824, 2147483646}

TextLengths == {0, 1, 3, 17, 70, 255}

NewTextCall(position, length, readString) ==
  [position |-> position, length |-> length, readString |-> readString,
   status |-> "idle", requests |-> <<>>, result |-> JsUndefined]

InitText ==
  \E position \in TextPositions, length \in TextLengths :
    /\ memory = <<>>
    /\ call = (1 :> NewTextCall(position, length, "wellFormed"))

\* convertString(position, buffer, readString) where buffer[position] is length.
convertStringAt(c) ==
  /\ call[c].status = "idle"
  /\ LET text == StringAt(call[c].position, call[c].length, call[c].readString)
     IN  call' = [call EXCEPT ![c].status = "returned",
                              ![c].requests = Append(@, <<text.v[2], text.v[3]>>),
                              ![c].result = text]
  /\ UNCHANGED memory

NextText == \E c \in DOMAIN call : convertStringAt(c)

SpecText == InitText /\ [][NextText]_vars

(***************************************************************************)
(* What the properties below speak of.                                     *)
(***************************************************************************)
Calls == DOMAIN call

\* The tags the table has no converter for.
ReservedTags == {64, 65, 66, 70, 71, 75}

LastTag == 76

Unregistered(word) == word \in Nat /\ (word \in ReservedTags \/ word > LastTag)

\* The word at position of the buffer call c decodes.
WordAt(c, position) == BufAt(WordsOf(c), position)

\* The position of the latest call of convertNode.
LastVisit(c) == call[c].visits[Len(call[c].visits)]

\* convertNode has been called and has not yet read its tag.
AtDispatch(c) ==
  /\ Running(c)
  /\ Top(call[c].stack).fn = "convertNode"
  /\ Top(call[c].stack).pc = 0

\* The call failed with the unknown-node error for tag word.
FailedUnknown(c, word) ==
  /\ call[c].status = "threw"
  /\ call[c].error.name = "Error"
  /\ call[c].error.message = "Unknown node type: "
  /\ call[c].error.arg = JsWord(word)

\* What convertNode returned, and what convertNodeList returned.
NodeReturns(c) == { r \in Range(call[c].returns) : r.fn = "convertNode" }

ListReturns(c) == { r \in Range(call[c].returns) : r.fn = "convertNodeList" }

\* value is the node some call of convertNode at position returned.
DecodedAt(c, position, value) ==
  \E r \in NodeReturns(c) : r.position = position /\ r.value = value

(***************************************************************************)
(* C1: once the decode reaches, at any depth, a node whose tag word is a   *)
(* reserved slot (64, 65, 66, 70, 71, 75) or greater than 76, the call     *)
(* raises the unknown-node error for that tag and returns no tree.         *)
(***************************************************************************)
ReachedUnregistered(c) ==
  \E i \in DOMAIN call[c].visits : Unregistered(WordAt(c, call[c].visits[i]))

C1_UnknownTagIsFatal ==
  \A c \in Calls :
    ReachedUnregistered(c) =>
      /\ Unregistered(WordAt(c, LastVisit(c)))
      /\ \/ AtDispatch(c) /\ Top(call[c].stack).at = LastVisit(c)
         \/ FailedUnknown(c, WordAt(c, LastVisit(c))) /\ call[c].result = JsUndefined

\* A reserved tag reached below the root, through a list element, and raised.
C1_Witness ==
  /\ FailedUnknown(1, 70)
  /\ Len(call[1].visits) >= 3
  /\ WordsOf(1)[1] = 53

(***************************************************************************)
(* C2 (as written): the unknown-node error identifies the tag value and    *)
(* the word position it was read at: two calls that raise equal errors     *)
(* failed at the same position.                                            *)
(***************************************************************************)
UnknownNode(c) == call[c].status = "threw" /\ call[c].error.name = "Error"

OptionalFields ==
  { <<8, "label", 3>>, <<10, "param", 3>>, <<13, "id", 3>>, <<13, "superClass", 4>>,
    <<14, "id", 3>>, <<14, "superClass", 4>>, <<16, "label", 3>>,
    <<20, "exported", 4>>, <<22, "declaration", 3>>, <<22, "source", 4>>,
    <<27, "init", 3>>, <<27, "test", 4>>, <<27, "update", 5>>, <<28, "id", 5>>,
    <<29, "id", 5>>, <<31, "alternate", 4>>, <<55, "value", 5>>,
    <<57, "argument", 3>>, <<62, "test", 3>>, <<69, "handler", 3>>,
    <<69, "finalizer", 4>>, <<73, "init", 3>> }

RootDecodes(c) == Cardinality({ i \in DOMAIN call[c].visits : call[c].visits[i] = 0 })

C3_NullReferenceLaw ==
  \A c \in Calls :
    /\ \A r \in NodeReturns(c) : \A o \in OptionalFields :
         WordAt(c, r.position) = o[1] =>
           LET word == WordAt(c, r.position + o[3])
           IN  /\ word = 0 => r.value.v[o[2]] = JsNull
               /\ (word \in Nat /\ word # 0) => DecodedAt(c, word, r.value.v[o[2]])
    /\ call[c].status = "returned" => RootDecodes(c) = 1

\* A TryStatement with a null finalizer and a decoded handler.
C3_Witness ==
  /\ call[1].status = "returned"
  /\ WordsOf(1)[1] = 69 /\ WordsOf(1)[4] = 2 /\ WordsOf(1)[5] = 0
  /\ call[1].result.v["finalizer"] = JsNull
  /\ call[1].result.v["handler"].t = "object"

(***************************************************************************)
(* C4: convertNodeList at a header with length word N returns exactly N    *)
(* entries, in the order of the reference words: entry i is null when      *)
(* word p+1+i is 0 and otherwise the node decoded at that word.            *)
(***************************************************************************)
C4_ListFidelity ==
  \A c \in Calls : \A r \in ListReturns(c) :
    LET N == WordAt(c, r.position)
    IN  N \in Nat =>
          /\ r.value.t = "array"
          /\ Len(r.value.v) = N
          /\ \A i \in 0..(N - 1) :
               LET word == WordAt(c, r.position + 1 + i)
               IN  /\ word = 0 => r.value.v[i + 1] = JsNull
                   /\ (word \in Nat /\ word # 0) => DecodedAt(c, word, r.value.v[i + 1])

\* A Program whose body has a decoded node followed by a hole.
C4_Witness ==
  /\ call[1].status = "returned"
  /\ WordsOf(1)[1] = 53
  /\ Len(call[1].result.v["body"].v) = 2
  /\ call[1].result.v["body"].v[1].t = "object"
  /\ call[1].result.v["body"].v[2] = JsNull

(***************************************************************************)
(* C5: in an ExportSpecifier (ImportSpecifier) whose exported (imported)   *)
(* word is 0 that field is the same instance as local, and local was       *)
(* decoded once: the specifier is the next object created after it.  When  *)
(* the word is nonzero the field is another instance, decoded at that word *)
(* after local.                                                            *)
(***************************************************************************)
\* <<tag, field>>
Specifiers == { <<23, "exported">>, <<37, "imported">> }

C5_DefaultSpecifierLaw ==
  \A c \in Calls : \A r \in NodeReturns(c) : \A s \in Specifiers :
    WordAt(c, r.position) = s[1] =>
      LET word == WordAt(c, r.position + 3)
          local == r.value.v["local"]
          other == r.value.v[s[2]]
      IN  /\ DecodedAt(c, r.position + 4, local)
          /\ ~Truthy(word) =>
               /\ other = local
               /\ r.value.oid = <<c, local.oid[2] + 1>>
          /\ Truthy(word) =>
               /\ DecodedAt(c, word, other)
               /\ other.oid[2] > local.oid[2]
               /\ r.value.oid = <<c, other.oid[2] + 1>>

\* An ImportSpecifier whose imported word is 0 has been decoded: its two fields
\* are one instance.
C5_Witness ==
  /\ call[1].status = "returned"
  /\ WordsOf(1)[1] = 37 /\ WordsOf(1)[4] = 0
  /\ call[1].result.v["imported"].oid = call[1].result.v["local"].oid
  /\ call[1].result.v["local"].oid # NoOid

(***************************************************************************)
(* C6: the node decoded at tag position p has start = buffer[p+1] and      *)
(* end = buffer[p+2], for every registered tag, and its converter starts   *)
(* with its cursor at p+1.                                                 *)
(***************************************************************************)
Frames(c) == Range(call[c].stack)

C6_PositionCopyThrough ==
  \A c \in Calls :
    /\ \A r \in NodeReturns(c) :
         /\ r.value.v["start"] = JsWord(WordAt(c, r.position + 1))
         /\ r.value.v["end"] = JsWord(WordAt(c, r.position + 2))
    /\ \A frame \in Frames(c) :
         (frame.fn = "convertNode" /\ frame.pc = 1) => frame.position = frame.at + 1

\* The last slot of the table decoded at the root, with the second pair of offsets.
C6_Witness ==
  /\ call[1].status = "returned"
  /\ WordsOf(1)[1] = 76
  /\ call[1].result.v["start"] = JsWord(5) /\ call[1].result.v["end"] = JsWord(19)

(***************************************************************************)
(* Trees compared by structure and by the instances they are made of.      *)
(***************************************************************************)
RECURSIVE Shape(_)
\* A value without the identities of its nodes.
Shape(value) ==
  CASE value.t = "object" ->
         [t |-> "object", v |-> [f \in DOMAIN value.v |-> Shape(value.v[f])], oid |-> NoOid]
    [] value.t = "array" ->
         [t |-> "array", v |-> [i \in DOMAIN value.v |-> Shape(value.v[i])], oid |-> NoOid]
    [] OTHER -> value

RECURSIVE Oids(_)
\* The node instances a value is made of.
Oids(value) ==
  CASE value.t = "object" ->
         (IF value.oid = NoOid THEN {} ELSE {value.oid})
           \cup UNION { Oids(value.v[f]) : f \in DOMAIN value.v }
    [] value.t = "array" -> UNION { Oids(value.v[i]) : i \in DOMAIN value.v }
    [] OTHER -> {}

\* Two finished calls ended the same way: the same error, or trees of one shape.
SameOutcome(c, d) ==
  /\ call[c].status = call[d].status
  /\ call[c].error = call[d].error
  /\ Shape(call[c].result) = Shape(call[d].result)

SameInputs(c, d) ==
  /\ WordsOf(c) = WordsOf(d)
  /\ call[c].readString = call[d].readString

(***************************************************************************)
(* C7: two calls of convertProgram on the same words with the same         *)
(* resolver raise the same error or return trees of the same structure,    *)
(* and the two trees share no node instance.                               *)
(***************************************************************************)
C7_Deterministic ==
  \A c, d \in Calls :
    (c # d /\ Done(c) /\ Done(d) /\ SameInputs(c, d)) =>
      /\ SameOutcome(c, d)
      /\ Oids(call[c].result) \cap Oids(call[d].result) = {}

\* The same Program decoded twice: two trees of two nodes each.
C7_Witness ==
  /\ call[1].status = "returned" /\ call[3].status = "returned"
  /\ WordsOf(1)[1] = 53
  /\ Cardinality(Oids(call[1].result)) = 2
  /\ Cardinality(Oids(call[3].result)) = 2

(***************************************************************************)
(* C8 (as written): a decode call that has ended has returned a tree or    *)
(* failed with the unknown-node error.                                     *)
(***************************************************************************)
C8_ReturnsOrUnknownNode ==
  Done(1) => (call[1].status = "returned" \/ UnknownNode(1))

(***************************************************************************)
(* C8 (amended): a decode call always eventually ends: it returns a tree,  *)
(* or fails with the unknown-node error, or fails with an error of the     *)
(* host (RangeError when the recursion exhausts the call stack or a double *)
(* lies outside the buffer, SyntaxError when RegExp or BigInt rejects the  *)
(* text); it never runs forever.                                           *)
(***************************************************************************)
HostErrors == {"RangeError", "SyntaxError"}

Ended(c) ==
  \/ call[c].status = "returned" /\ call[c].result.t = "object"
  \/ UnknownNode(c) /\ call[c].error.message = "Unknown node type: "
  \/ call[c].status = "threw" /\ call[c].error.name \in HostErrors

C8_Completion == <>Ended(1)

\* A SpreadElement whose argument is word 0, the SpreadElement itself: the
\* recursion ended by exhausting the call stack.
C8_Witness ==
  /\ call[1].status = "threw"
  /\ call[1].error.name = "RangeError"
  /\ WordsOf(1)[1] = 59 /\ WordsOf(1)[4] = 0
  /\ Len(call[1].visits) >= 3

(***************************************************************************)
(* C9: no step of a decode call writes a word of a buffer or changes the   *)
(* arguments of a call: the buffers and resolvers are the same after every *)
(* step, whether the call goes on, returns or fails.                       *)
(***************************************************************************)
InputsUnchanged ==
  /\ memory' = memory
  /\ \A c \in Calls :
       /\ call'[c].buffer = call[c].buffer
       /\ call'[c].readString = call[c].readString

C9_ReadOnlyInputs == [][InputsUnchanged]_vars

\* A call that decoded some nodes and then failed.
C9_Witness ==
  /\ call[1].status = "threw"
  /\ Len(call[1].returns) >= 2
  /\ WordsOf(1)[1] = 53

(***************************************************************************)
(* C10: two calls over two buffers whose steps interleave in any order end *)
(* as the calls that decoded those buffers alone ended, and every step     *)
(* changes the state of one call only.                                     *)
(***************************************************************************)
\* Calls 3 and 4 run interleaved; calls 1 and 2 decoded the same buffers alone.
Alone(c) == c - 2

OneCallSteps == \E c \in Calls : \A d \in Calls \ {c} : call'[d] = call[d]

C10_Independent ==
  /\ [](\A c \in {3, 4} : Done(c) => SameOutcome(c, Alone(c)))
  /\ [][OneCallSteps /\ memory' = memory]_vars

\* One of the interleaved calls has returned its tree while the other is still
\* inside its decode.
C10_Witness ==
  /\ call[3].status = "returned" /\ Len(call[3].visits) >= 2
  /\ Running(4) /\ Len(call[4].visits) >= 2

(***************************************************************************)
(* C11: for a text span whose length word is at word p, the resolver is    *)
(* asked once, for the length in that word and for the byte offset         *)
(* 4 * (p + 1): the offset is a multiple of 4 whose quarter is p + 1, so   *)
(* it has neither wrapped nor changed sign.                                *)
(***************************************************************************)
C11_ByteOffsetExact ==
  \A c \in DOMAIN call :
    call[c].status = "returned" =>
      /\ Len(call[c].requests) = 1
      /\ call[c].requests[1][2] = call[c].length
      /\ call[c].requests[1][1] >= 0
      /\ call[c].requests[1][1] % 4 = 0
      /\ call[c].requests[1][1] \div 4 = call[c].position + 1

(***************************************************************************)
(* C12: the value of a number Literal decoded at tag position p is the     *)
(* double whose low word is buffer[p+4] and whose high word is             *)
(* buffer[p+5], both inside the buffer, whatever the raw reference at p+3  *)
(* holds; raw is undefined when that reference is 0 and otherwise the text *)
(* span at the referenced word.                                            *)
(***************************************************************************)
NumberLiteral == 41

\* The double with the given low and high words.
Float64(low, high) == [t |-> "float64", v |-> <<low, high>>, oid |-> NoOid]

PlusText == [t |-> "text", v |-> <<"wellFormed", 60, 1>>, oid |-> NoOid]

\* The doubles 1 and 2: 0x3FF0000000000000 and 0x4000000000000000.
DoubleOne == Float64(0, 1072693248)

DoubleTwo == Float64(0, 1073741824)

TypeOf(node) == node.v["type"].v

IsReturnOnePlusTwo(tree) ==
  /\ TypeOf(tree) = "Program"
  /\ Len(tree.v["body"].v) = 1
  /\ LET statement == tree.v["body"].v[1]
         sum == statement.v["argument"]
     IN  /\ TypeOf(statement) = "ReturnStatement"
         /\ TypeOf(sum) = "BinaryExpression"
         /\ sum.v["operator"] = PlusText
         /\ TypeOf(sum.v["left"]) = "Literal"
         /\ sum.v["left"].v["value"] = DoubleOne
         /\ TypeOf(sum.v["right"]) = "Literal"
         /\ sum.v["right"].v["value"] = DoubleTwo
         /\ sum.v["left"].oid[2] < sum.v["right"].oid[2]

C13_ReturnOnePlusTwo ==
  \A c \in Calls :
    WordsOf(c) = ReturnOnePlusTwo =>
      /\ call[c].status # "threw"
      /\ call[c].status = "returned" =>
            /\ IsReturnOnePlusTwo(call[c].result)
            /\ call[c].visits = <<0, 5, 9, 16, 22>>

\* The decode of the scenario has returned its tree of five nodes.
C13_Witness ==
  /\ WordsOf(1) = ReturnOnePlusTwo
  /\ call[1].status = "returned"
  /\ call[1].allocated = 5

(***************************************************************************)
(* C14 (as written): convertNode is entered at word 0 only by the root     *)
(* call of convertProgram.                                                 *)
(***************************************************************************)
C14_ZeroNeverFollowed ==
  \A c \in Calls : \A i \in DOMAIN call[c].visits :
    call[c].visits[i] = 0 => i = 1

(***************************************************************************)
(* C14 (amended): an optional child reference or a list element whose word *)
(* is 0 never causes a node to be decoded at word 0; a required child      *)
(* reference is followed without a test, so the only calls of convertNode  *)
(* at word 0 below the root are made by a converter for a required         *)
(* reference whose word is 0.                                              *)
(***************************************************************************)
\* convertNode has just been called at word 0 by a converter or a list.
ZeroFollowed(c) ==
  /\ AtDispatch(c)
  /\ Len(call[c].stack) >= 2
  /\ Top(call[c].stack).at = 0

Caller(c) == call[c].stack[Len(call[c].stack) - 1]

C14_ZeroFollowedOnlyWhenRequired ==
  \A c \in Calls :
    ZeroFollowed(c) =>
      /\ Caller(c).fn = "convertNode"
      /\ \/ /\ CurrentOp(Caller(c)).op = "nodeRef"
            /\ WordAt(c, Caller(c).position - 1) = 0
         \/ /\ CurrentOp(Caller(c)).op = "nodeRefHere"
            /\ WordAt(c, Caller(c).position) = 0

\* A SpreadElement at the root whose required argument word is 0 has called
\* convertNode at word 0 again.
C14_Witness ==
  /\ ZeroFollowed(1)
  /\ WordsOf(1)[1] = 59
  /\ call[1].visits = <<0, 0>>

(***************************************************************************)
(* C15: in a Property (tag 54) and in the trailing AssignmentPattern-      *)
(* Property slot (tag 76) shorthand is true exactly when the value word is *)
(* 0; then value is the same instance as key, which was decoded once.      *)
(* Otherwise value is the node decoded at the value word, after key, and   *)
(* shorthand is false.                                                     *)
(***************************************************************************)
\* <<tag, offset of the value word from the tag word>>; key follows the value word.
Properties == { <<54, 6>>, <<76, 3>> }

C15_PropertyShorthand ==
  \A c \in Calls : \A r \in NodeReturns(c) : \A property \in Properties :
    WordAt(c, r.position) = property[1] =>
      LET word == WordAt(c, r.position + property[2])
          key == r.value.v["key"]
          value == r.value.v["value"]
      IN  /\ word \in Nat
          /\ r.value.v["shorthand"] = [t |-> "boolean", v |-> (word = 0), oid |-> NoOid]
          /\ DecodedAt(c, r.position + property[2] + 1, key)
          /\ word = 0 =>
               /\ value = key
               /\ r.value.oid = <<c, key.oid[2] + 1>>
          /\ word # 0 =>
               /\ DecodedAt(c, word, value)
               /\ value.oid[2] > key.oid[2]
               /\ r.value.oid = <<c, value.oid[2] + 1>>

\* A shorthand Property at the root: value and key are one instance.
C15_Witness ==
  /\ call[1].status = "returned"
  /\ WordsOf(1)[1] = 54 /\ WordsOf(1)[7] = 0
  /\ call[1].result.v["shorthand"].v = TRUE
  /\ call[1].result.v["value"].oid = call[1].result.v["key"].oid
  /\ call[1].result.v["key"].oid # NoOid

(***************************************************************************)
(* C16: the kind of a VariableDeclaration, Property or MethodDefinition is *)
(* the entry of its table at the index word when the index is inside the   *)
(* table and undefined otherwise, and reading the kind never fails: the    *)
(* step that reads the index word goes on to the next word.                *)
(***************************************************************************)
\* <<tag, the symbolic values in index order>>; the index word is at offset 3.
KindTables ==
  { <<72, <<"var", "let", "const">> >>,
    <<54, <<"init", "get", "set">> >>,
    <<48, <<"constructor", "method", "get", "set">> >> }

KindTags == { kinds[1] : kinds \in KindTables }

KindOf(kinds, index) ==
  IF index \in 0..(Len(kinds[2]) - 1)
    THEN [t |-> "string", v |-> kinds[2][index + 1], oid |-> NoOid]
    ELSE [t |-> "undefined", v |-> 0, oid |-> NoOid]

KindsDecoded ==
  \A c \in Calls : \A r \in NodeReturns(c) : \A kinds \in KindTables :
    WordAt(c, r.position) = kinds[1] =>
      r.value.v["kind"] = KindOf(kinds, WordAt(c, r.position + 3))

\* The converter of a node with a kind is about to read the index word.
AtKindWord(c) ==
  /\ call[c].status = "running"
  /\ Top(call[c].stack).fn = "convertNode"
  /\ Top(call[c].stack).nodeType \in KindTags
  /\ Top(call[c].stack).position = Top(call[c].stack).at + 3

KindReadGoesOn ==
  \A c \in Calls :
    AtKindWord(c) =>
      /\ call'[c].status = "running"
      /\ Top(call'[c].stack).position = Top(call[c].stack).at + 4

C16_EnumUnguarded == []KindsDecoded /\ [][KindReadGoesOn]_vars

\* A VariableDeclaration with index word 7 and no declarations has been
\* returned with an undefined kind.
C16_Witness ==
  /\ call[1].status = "returned"
  /\ WordsOf(1)[1] = 72 /\ WordsOf(1)[4] = 7
  /\ call[1].result.v["kind"] = JsUndefined

(***************************************************************************)
(* C17: once convertNode is called at a word position at or past the end   *)
(* of the buffer, the call fails with the unknown-node error (the tag read *)
(* is undefined) and no node is returned for that position.                *)
(***************************************************************************)
PastEnd(c, position) == position \in Nat /\ position >= Len(WordsOf(c))

ReachedPastEnd(c) ==
  \E i \in DOMAIN call[c].visits : PastEnd(c, call[c].visits[i])

C17_OutOfBoundsIsUnknownNode ==
  \A c \in Calls :
    ReachedPastEnd(c) =>
      /\ PastEnd(c, LastVisit(c))
      /\ \A r \in NodeReturns(c) : ~PastEnd(c, r.position)
      /\ \/ AtDispatch(c) /\ Top(call[c].stack).at = LastVisit(c)
         \/ /\ call[c].status = "threw"
            /\ call[c].error.name = "Error"
            /\ call[c].error.message = "Unknown node type: "
            /\ call[c].error.arg = [t |-> "undefined", v |-> 0, oid |-> NoOid]
            /\ call[c].result = JsUndefined

\* A Program whose one list element refers to word 9 of a buffer of 5 words has
\* failed at that word.
C17_Witness ==
  /\ call[1].status = "threw"
  /\ call[1].error.name = "Error"
  /\ WordsOf(1) = <<53, 0, 9, 1, 9>>
  /\ call[1].visits = <<0, 9>>
====
